---- MODULE Spec2Model ----
(***************************************************************************)
(* Model of the Three.js solar-system scene: the scene coordinator         *)
(* (src/unnamed/part_000, the modular main module), the celestial bodies   *)
(* (src/js/celestialBodies.js), the grid (src/js/grid.js) and the X-Wing   *)
(* controller (src/js/xwing.js).                                           *)
(*                                                                         *)
(* Numbers.  JavaScript numbers are modelled in fixed point:               *)
(*   - time in whole seconds;                                              *)
(*   - angles in milliradians (1/1000 rad);                                *)
(*   - lengths, positions and velocities in hundredths of a scene unit,    *)
(*     unit vectors with components in hundredths;                         *)
(*   - Math.cos / Math.sin return thousandths.                             *)
(* The JavaScript event loop is modelled as one action per callback; a     *)
(* promise reaction (microtask) runs before any other callback.            *)
(***************************************************************************)
EXTENDS Integers, Sequences, FiniteSets, TLC

\* ---------------------------------------------------------------- bounds
MaxTime == 3
MaxStep == 2
MaxKeyTime == 1
MaxThrustTime == 2

\* ------------------------------------------------------ program constants
SOLAR_MASS == 1000
EARTH_MASS_DIV == 400
ORBIT_RADIUS == 50
MOON_ORBIT_RADIUS == 5
MOVE_SPEED == 10
GRID_SIZE == 200
\* ORB_G = 0.2, written as a fraction
ORB_G_NUM == 2
ORB_G_DEN == 10
\* GRAVITY = 9.8 and DIP_FALLOFF = 15.0, in tenths
GRAVITY_x10 == 98
DIP_FALLOFF_x10 == 150
\* EARTH_MASS = SOLAR_MASS / 400 = 2.5, in tenths
EARTH_MASS_x10 == (SOLAR_MASS * 10) \div EARTH_MASS_DIV

\* fixed-point denominators
FP == 10 * 10
MRAD == 10 * 10 * 10
\* pi and the Earth's spin rate 0.1 rad/s, the star field's 0.001 rad/s, in mrad
PI_MRAD == 3142
EARTH_SPIN == 100
STAR_SPIN == 1

\* ------------------------------------------------------------ arithmetic
\* a / b rounded toward zero (the sign-symmetric rounding of a float made an integer)
Quot(a, b) == IF a >= 0 THEN a \div b ELSE -((-a) \div b)

RECURSIVE SqrtIter(_, _, _)
SqrtIter(n, lo, hi) ==
  IF lo >= hi THEN lo
  ELSE CHOOSE r \in { IF mid * mid <= n THEN SqrtIter(n, mid, hi)
                                         ELSE SqrtIter(n, lo, mid - 1) :
                      mid \in {(lo + hi + 1) \div 2} } : TRUE

\* Math.sqrt on non-negative integers, rounded down
Sqrt(n) == SqrtIter(n, 0, 46340)

\* Math.sin / Math.cos: angle in mrad, result in thousandths
\* (Bhaskara's rational approximation on each half turn)
SinHalf(x) ==
  LET p == x * (PI_MRAD - x)
  IN (16 * p * 10) \div ((5 * PI_MRAD * PI_MRAD - 4 * p) \div 100)

Sin(a) ==
  LET r == a % (2 * PI_MRAD)
  IN IF r <= PI_MRAD THEN SinHalf(r) ELSE -SinHalf(r - PI_MRAD)

Cos(a) == Sin(a + PI_MRAD \div 2)

\* ------------------------------------------------------- THREE.Vector3
Vec(x, y, z) == <<x, y, z>>
Zero3 == Vec(0, 0, 0)
VAdd(a, b) == Vec(a[1] + b[1], a[2] + b[2], a[3] + b[3])
VSub(a, b) == Vec(a[1] - b[1], a[2] - b[2], a[3] - b[3])
VScale(a, k) == Vec(a[1] * k, a[2] * k, a[3] * k)
VQuot(a, k) == Vec(Quot(a[1], k), Quot(a[2], k), Quot(a[3], k))
LengthSq(a) == a[1] * a[1] + a[2] * a[2] + a[3] * a[3]
Length(a) == Sqrt(LengthSq(a))
\* Vector3.normalize: divideScalar(length() || 1); the result is a unit
\* vector with components in hundredths
Normalize(a) ==
  LET len == Length(a)
  IN IF len = 0 THEN a ELSE VQuot(VScale(a, FP), len)
\* Vector3.crossVectors
Cross(a, b) == Vec(a[2] * b[3] - a[3] * b[2],
                   a[3] * b[1] - a[1] * b[3],
                   a[1] * b[2] - a[2] * b[1])
SetY(a, y) == Vec(a[1], y, a[3])

\* ------------------------------------------------------ non-finite numbers
\* The two IEEE values a JavaScript number can take besides the finite ones
\* that occur here, coded by integers outside the range of the finite ones.
NaN == -(2 ^ 30)
Infinity == 2 ^ 30
isFinite(x) == x # NaN /\ x # Infinity
\* a * b for a rate a and a time b >= 0
Times(a, b) ==
  IF a = NaN \/ b = NaN THEN NaN
  ELSE IF a = Infinity \/ b = Infinity
       THEN (IF a = 0 \/ b = 0 THEN NaN ELSE Infinity)
       ELSE a * b

\* ------------------------------------------------------ derived constants
\* omega = sqrt(ORB_G * M / r^3) in mrad/s, with M given in tenths:
\* omega^2 * 10^6 = ORB_G_NUM * Mx10 * 10^5 / (ORB_G_DEN * r^3)
\* The quotient is Infinity for r = 0 and M > 0, NaN for 0 / 0, and Math.sqrt
\* of a negative number or of -Infinity is NaN.
Omega(Mx10, r) ==
  IF r = 0 THEN (IF Mx10 > 0 THEN Infinity ELSE NaN)
  ELSE IF (Mx10 < 0 /\ r > 0) \/ (Mx10 > 0 /\ r < 0) THEN NaN
  ELSE LET M == IF Mx10 < 0 THEN -Mx10 ELSE Mx10
           R == IF r < 0 THEN -r ELSE r
       IN Sqrt((ORB_G_NUM * M * 10000) \div ((ORB_G_DEN * R * R * R) \div 10))

ORB_OMEGA == Omega(SOLAR_MASS * 10, ORBIT_RADIUS)
MOON_OMEGA == Omega(EARTH_MASS_x10, MOON_ORBIT_RADIUS)

\* xwing.js physics parameters
TURN_SPEED == PI_MRAD \div 2
ACCELERATION == MOVE_SPEED * 2
MAX_VELOCITY == MOVE_SPEED
\* DAMPENING = 0.01, in hundredths
DAMPENING_x100 == 1

\* ------------------------------------------------------------------ state
VARIABLES
  config,      \* the exports of constants.js and createGrid's fade distances
  window,      \* window.innerWidth, window.innerHeight
  clock,       \* THREE.Clock: running, elapsedTime
  prevTime,    \* part_000: let prevTime
  keys,        \* xwing.js: keys
  heading,     \* xwing.js: heading (mrad)
  velocity,    \* xwing.js: velocity
  loader,      \* GLTFLoader request: "loading", "loaded", "error"
  microtasks,  \* pending promise reactions
  xWing,       \* part_000: let xWing ("undefined" or "model")
  craft,       \* the gltf.scene object: exists, position, quaternion, inScene
  errorLog,    \* number of console.error calls
  camera,      \* camera: position, direction (unit), aspect (thousandths)
  sizes,       \* renderer and composer sizes
  bodies,      \* sun time uniform, moon and Earth transforms
  grid,        \* grid.material.uniforms
  background,  \* spaceBackground.material.uniforms.time and starField.rotation.y
  running,     \* the animation loop is still scheduled
  tick         \* the last animate call: t, delta, log of writes, rendered snapshot

vars == <<config, window, clock, prevTime, keys, heading, velocity, loader, microtasks,
          xWing, craft, errorLog, camera, sizes, bodies, grid, background,
          running, tick>>

KeyNames == {"w", "a", "s", "d", "q", "e"}
\* KeyboardEvent.code values the listeners test, and one bound to nothing
KeyCodes == {"KeyW", "KeyA", "KeyS", "KeyD", "KeyQ", "KeyE", "KeyX"}
\* the codes the environment of Spec sends: a thrust key, a yaw key, a foreign key
PressedCodes == {"KeyW", "KeyQ", "KeyX"}
\* window sizes the environment chooses from
WindowSizes == {<<800, 600>>, <<1200, 600>>}
\* yaw quarter-turns standing for the orientations xWing.quaternion takes
\* (0: the loaded model's identity orientation, 2: facing the other way)
Faces == {0, 2}
\* seconds the clock advances between two frames
Steps == 1 .. MaxStep

Aspect(size) == (size[1] * MRAD) \div size[2]

\* the constants as the repository ships them (masses and radii in units,
\* DIP_FALLOFF in tenths, the fade distances of createGrid in units)
DefaultConfig ==
  [ SOLAR_MASS         |-> SOLAR_MASS,
    ORBIT_RADIUS       |-> ORBIT_RADIUS,
    MOON_ORBIT_RADIUS  |-> MOON_ORBIT_RADIUS,
    DIP_FALLOFF        |-> DIP_FALLOFF_x10,
    fadeStartDistance  |-> 30,
    maxVisibleDistance |-> 80 ]

\* EARTH_MASS = SOLAR_MASS / 400, in tenths
EARTH_MASS(c) == Quot(c.SOLAR_MASS * 10, EARTH_MASS_DIV)

\* createGrid with the fade reference point initialised to the spacecraft's
\* start position instead of the origin
createGridPlayerAtStart(c) ==
  [ sunPos             |-> Vec(0, 0, 0),
    mass               |-> c.SOLAR_MASS * 10,
    G                  |-> GRAVITY_x10,
    falloff            |-> c.DIP_FALLOFF,
    earthPos           |-> Vec(0, 0, 0),
    earthMass          |-> EARTH_MASS(c),
    playerPosition     |-> Vec(0, 0, c.ORBIT_RADIUS * FP),
    maxVisibleDistance |-> c.maxVisibleDistance * FP,
    fadeStartDistance  |-> c.fadeStartDistance * FP ]

\* createGrid with the two fade distances exchanged
createGridFadeSwapped(c) ==
  [ sunPos             |-> Vec(0, 0, 0),
    mass               |-> c.SOLAR_MASS * 10,
    G                  |-> GRAVITY_x10,
    falloff            |-> c.DIP_FALLOFF,
    earthPos           |-> Vec(0, 0, 0),
    earthMass          |-> EARTH_MASS(c),
    playerPosition     |-> Vec(0, 0, 0),
    maxVisibleDistance |-> c.fadeStartDistance * FP,
    fadeStartDistance  |-> c.maxVisibleDistance * FP ]

\* createGrid without the softening term
createGridNoFalloff(c) ==
  [ sunPos             |-> Vec(0, 0, 0),
    mass               |-> c.SOLAR_MASS * 10,
    G                  |-> GRAVITY_x10,
    falloff            |-> 0,
    earthPos           |-> Vec(0, 0, 0),
    earthMass          |-> EARTH_MASS(c),
    playerPosition     |-> Vec(0, 0, 0),
    maxVisibleDistance |-> c.maxVisibleDistance * FP,
    fadeStartDistance  |-> c.fadeStartDistance * FP ]

\* createGrid: the uniforms object
createGrid(c) ==
  [ sunPos             |-> Vec(0, 0, 0),
    mass               |-> c.SOLAR_MASS * 10,
    G                  |-> GRAVITY_x10,
    falloff            |-> c.DIP_FALLOFF,
    earthPos           |-> Vec(0, 0, 0),
    earthMass          |-> EARTH_MASS(c),
    playerPosition     |-> Vec(0, 0, 0),
    maxVisibleDistance |-> c.maxVisibleDistance * FP,
    fadeStartDistance  |-> c.fadeStartDistance * FP ]

\* createSun, createEarth, createMoon: the transforms the loop animates
createBodies(c) ==
  [ sunTime       |-> 0,
    sunPosition   |-> Vec(0, 0, 0),
    earthPosition |-> Vec(0, 0, 0),
    earthRotation |-> 0,
    moonPosition  |-> Vec(c.MOON_ORBIT_RADIUS * FP, 1 * FP, 0),
    moonPivot     |-> 0,
    moonMesh      |-> 0,
    moonOmega     |-> Omega(EARTH_MASS(c), c.MOON_ORBIT_RADIUS),
    earthOrbitalSpeed |-> Omega(c.SOLAR_MASS * 10, c.ORBIT_RADIUS) ]

\* camera.position.set(10, 2, 2); OrbitControls looks at the target (0, 0, 0)
InitialCamera ==
  [ position  |-> Vec(10 * FP, 2 * FP, 2 * FP),
    direction |-> Normalize(VSub(Zero3, Vec(10 * FP, 2 * FP, 2 * FP))),
    aspect    |-> Aspect(<<800, 600>>) ]

NoRender(c) ==
  [ t |-> -1, sunTime |-> -1, bgTime |-> -1, grid |-> createGrid(c) ]

\* the state after the module bodies have run with the constants c
Start(c) ==
  /\ config = c
  /\ window = <<800, 600>>
  /\ clock = [ running |-> FALSE, elapsedTime |-> 0 ]
  /\ prevTime = 0
  /\ keys = [ k \in KeyNames |-> FALSE ]
  /\ heading = PI_MRAD
  /\ velocity = Zero3
  /\ loader = "loading"
  /\ microtasks = <<>>
  /\ xWing = "undefined"
  /\ craft = [ exists |-> FALSE, position |-> Zero3, quaternion |-> 0, inScene |-> FALSE ]
  /\ errorLog = 0
  /\ camera = InitialCamera
  /\ sizes = [ renderer |-> <<800, 600>>, composer |-> <<800, 600>> ]
  /\ bodies = createBodies(c)
  /\ grid = createGrid(c)
  /\ background = [ time |-> 0, starRotation |-> 0 ]
  /\ running = TRUE
  /\ tick = [ t |-> 0, delta |-> 0, log |-> <<>>, fault |-> FALSE,
              rendered |-> NoRender(c) ]

Init == Start(DefaultConfig)

\* ------------------------------------------------------------ key handlers
\* the listeners with the KeyE line still naming the q flag
KeyOfPastedQ(code) ==
  CASE code = "KeyW" -> "w" [] code = "KeyA" -> "a" [] code = "KeyS" -> "s"
    [] code = "KeyD" -> "d" [] code = "KeyQ" -> "q" [] code = "KeyE" -> "q"
    [] OTHER -> "none"

\* the flag a listener's if-statements select for a key code
KeyOf(code) ==
  CASE code = "KeyW" -> "w" [] code = "KeyA" -> "a" [] code = "KeyS" -> "s"
    [] code = "KeyD" -> "d" [] code = "KeyQ" -> "q" [] code = "KeyE" -> "e"
    [] OTHER -> "none"

\* the six if-statements of a listener, setting the matching flag to v
SetKey(ks, code, v) ==
  [ k \in KeyNames |-> IF KeyOf(code) = k THEN v ELSE ks[k] ]

keydown(code) ==
  /\ microtasks = <<>>
  /\ keys' = SetKey(keys, code, TRUE)
  /\ UNCHANGED <<config, window, clock, prevTime, heading, velocity, loader, microtasks,
                 xWing, craft, errorLog, camera, sizes, bodies, grid, background,
                 running, tick>>

keyup(code) ==
  /\ microtasks = <<>>
  /\ keys' = SetKey(keys, code, FALSE)
  /\ UNCHANGED <<config, window, clock, prevTime, heading, velocity, loader, microtasks,
                 xWing, craft, errorLog, camera, sizes, bodies, grid, background,
                 running, tick>>

\* ------------------------------------------------------------------ resize
\* a resize handler that eases the aspect ratio toward the new one
onResizeSmoothed(size) ==
  /\ microtasks = <<>>
  /\ window' = size
  /\ camera' = [ camera EXCEPT !.aspect = (camera.aspect + Aspect(size)) \div 2 ]
  /\ sizes' = [ renderer |-> size, composer |-> size ]
  /\ UNCHANGED <<config, clock, prevTime, keys, heading, velocity, loader, microtasks,
                 xWing, craft, errorLog, bodies, grid, background, running, tick>>

onResize(size) ==
  /\ microtasks = <<>>
  /\ window' = size
  /\ camera' = [ camera EXCEPT !.aspect = Aspect(size) ]
  /\ sizes' = [ renderer |-> size, composer |-> size ]
  /\ UNCHANGED <<config, clock, prevTime, keys, heading, velocity, loader, microtasks,
                 xWing, craft, errorLog, bodies, grid, background, running, tick>>

\* ------------------------------------------------------------- model load
\* an onLoad callback that places the model one unit above the plane
gltfOnLoadRaised ==
  /\ microtasks = <<>>
  /\ loader = "loading"
  /\ loader' = "loaded"
  /\ craft' = [ exists |-> TRUE,
                position |-> Vec(0, 1 * FP, config.ORBIT_RADIUS * FP),
                quaternion |-> 0, inScene |-> TRUE ]
  /\ microtasks' = <<"then">>
  /\ UNCHANGED <<config, window, clock, prevTime, keys, heading, velocity, xWing,
                 errorLog, camera, sizes, bodies, grid, background, running, tick>>

\* an onLoad callback that resolves the promise without adding the model to
\* the scene
gltfOnLoadNotAdded ==
  /\ microtasks = <<>>
  /\ loader = "loading"
  /\ loader' = "loaded"
  /\ craft' = [ exists |-> TRUE,
                position |-> Vec(0, 0, config.ORBIT_RADIUS * FP),
                quaternion |-> 0, inScene |-> FALSE ]
  /\ microtasks' = <<"then">>
  /\ UNCHANGED <<config, window, clock, prevTime, keys, heading, velocity, xWing,
                 errorLog, camera, sizes, bodies, grid, background, running, tick>>

\* GLTFLoader onLoad callback of loadXWing: place the model, add it to the
\* scene, resolve the promise (the .then reaction is queued)
gltfOnLoad ==
  /\ microtasks = <<>>
  /\ loader = "loading"
  /\ loader' = "loaded"
  /\ craft' = [ exists |-> TRUE,
                position |-> Vec(0, 0, config.ORBIT_RADIUS * FP),
                quaternion |-> 0, inScene |-> TRUE ]
  /\ microtasks' = <<"then">>
  /\ UNCHANGED <<config, window, clock, prevTime, keys, heading, velocity, xWing,
                 errorLog, camera, sizes, bodies, grid, background, running, tick>>

\* GLTFLoader onError callback: reject the promise (the .catch reaction is queued)
gltfOnError ==
  /\ microtasks = <<>>
  /\ loader = "loading"
  /\ loader' = "error"
  /\ microtasks' = <<"catch">>
  /\ UNCHANGED <<config, window, clock, prevTime, keys, heading, velocity, xWing, craft,
                 errorLog, camera, sizes, bodies, grid, background, running, tick>>

\* a .then callback that also pushes the model position into the grid uniform
thenCallbackCopiesPosition ==
  /\ microtasks # <<>>
  /\ Head(microtasks) = "then"
  /\ microtasks' = Tail(microtasks)
  /\ xWing' = "model"
  /\ grid' = [ grid EXCEPT !.playerPosition = craft.position ]
  /\ UNCHANGED <<config, window, clock, prevTime, keys, heading, velocity, loader, craft,
                 errorLog, camera, sizes, bodies, background, running, tick>>

\* .then(model => { xWing = model; })
thenCallback ==
  /\ microtasks # <<>>
  /\ Head(microtasks) = "then"
  /\ microtasks' = Tail(microtasks)
  /\ xWing' = "model"
  /\ UNCHANGED <<config, window, clock, prevTime, keys, heading, velocity, loader, craft,
                 errorLog, camera, sizes, bodies, grid, background, running, tick>>

\* a .catch callback that swallows the error without reporting it
catchCallbackSilent ==
  /\ microtasks # <<>>
  /\ Head(microtasks) = "catch"
  /\ microtasks' = Tail(microtasks)
  /\ UNCHANGED <<config, window, clock, prevTime, keys, heading, velocity, loader, xWing,
                 craft, errorLog, camera, sizes, bodies, grid, background,
                 running, tick>>

\* .catch(error => console.error('Error loading X-Wing:', error))
catchCallback ==
  /\ microtasks # <<>>
  /\ Head(microtasks) = "catch"
  /\ microtasks' = Tail(microtasks)
  /\ errorLog' = errorLog + 1
  /\ UNCHANGED <<config, window, clock, prevTime, keys, heading, velocity, loader, xWing,
                 craft, camera, sizes, bodies, grid, background, running, tick>>

\* ------------------------------------------------------------ the tick
\* THREE.Clock.getElapsedTime: the first call starts the clock and returns 0,
\* a later call adds the d seconds that passed since the previous call
getElapsedTime(c, d) ==
  IF ~c.running THEN [ running |-> TRUE, elapsedTime |-> 0 ]
  ELSE [ c EXCEPT !.elapsedTime = c.elapsedTime + d ]

\* the Earth's position with the angle advancing at half the rate
EarthPositionHalfRate(R, omega, time, sunY) ==
  LET ang == Times(omega, time) \div 2
      ex  == (R * Cos(ang) * FP) \div MRAD
      ez  == (R * Sin(ang) * FP) \div MRAD
  IN Vec(ex, sunY, ez)

\* Earth orbital position (circular), in hundredths
\* Math.cos and Math.sin of NaN or Infinity are NaN, and so is R * NaN
EarthPosition(R, omega, time, sunY) ==
  LET ang == Times(omega, time)
      ex  == (R * Cos(ang) * FP) \div MRAD
      ez  == (R * Sin(ang) * FP) \div MRAD
  IN IF isFinite(ang) THEN Vec(ex, sunY, ez) ELSE Vec(NaN, sunY, NaN)

\* updateCelestialBodies copying the Earth position into the uniform before
\* moving the Earth (the uniform lags one frame)
updateCelestialBodiesStaleUniform(s) ==
  LET time == s.t
      b1 == [ s.bodies EXCEPT !.sunTime = time ]
      b2 == [ b1 EXCEPT !.moonPivot = Times(b1.moonOmega, time) ]
      b3 == [ b2 EXCEPT !.moonMesh = Times(b2.moonOmega, time) ]
      g  == [ s.grid EXCEPT !.earthPos = b3.earthPosition ]
      b4 == [ b3 EXCEPT !.earthPosition =
                EarthPosition(config.ORBIT_RADIUS, b3.earthOrbitalSpeed, time,
                              b3.sunPosition[2]) ]
      b5 == [ b4 EXCEPT !.earthRotation = time * EARTH_SPIN ]
  IN [ s EXCEPT !.bodies = b5, !.grid = g,
                !.log = s.log \o <<"sun.time", "moon.pivot", "moon.mesh",
                                   "earthPos", "earth.position", "earth.rotation">> ]

\* updateCelestialBodies advancing the Earth by the frame delta instead of
\* the elapsed time
updateCelestialBodiesByDelta(s) ==
  LET time == s.t
      b1 == [ s.bodies EXCEPT !.sunTime = time ]
      b2 == [ b1 EXCEPT !.moonPivot = Times(b1.moonOmega, time) ]
      b3 == [ b2 EXCEPT !.moonMesh = Times(b2.moonOmega, time) ]
      b4 == [ b3 EXCEPT !.earthPosition =
                EarthPosition(config.ORBIT_RADIUS, b3.earthOrbitalSpeed,
                              s.tick.delta, b3.sunPosition[2]) ]
      g  == [ s.grid EXCEPT !.earthPos = b4.earthPosition ]
      b5 == [ b4 EXCEPT !.earthRotation = time * EARTH_SPIN ]
  IN [ s EXCEPT !.bodies = b5, !.grid = g,
                !.log = s.log \o <<"sun.time", "moon.pivot", "moon.mesh",
                                   "earth.position", "earthPos", "earth.rotation">> ]

\* updateCelestialBodies spinning the moon mesh at the Earth's spin rate
updateCelestialBodiesMoonSpin(s) ==
  LET time == s.t
      b1 == [ s.bodies EXCEPT !.sunTime = time ]
      b2 == [ b1 EXCEPT !.moonPivot = Times(b1.moonOmega, time) ]
      b3 == [ b2 EXCEPT !.moonMesh = time * EARTH_SPIN ]
      b4 == [ b3 EXCEPT !.earthPosition =
                EarthPosition(config.ORBIT_RADIUS, b3.earthOrbitalSpeed, time,
                              b3.sunPosition[2]) ]
      g  == [ s.grid EXCEPT !.earthPos = b4.earthPosition ]
      b5 == [ b4 EXCEPT !.earthRotation = time * EARTH_SPIN ]
  IN [ s EXCEPT !.bodies = b5, !.grid = g,
                !.log = s.log \o <<"sun.time", "moon.pivot", "moon.mesh",
                                   "earth.position", "earthPos", "earth.rotation">> ]

\* updateCelestialBodies writing the Earth position into the sunPos uniform
updateCelestialBodiesMovesSun(s) ==
  LET time == s.t
      b1 == [ s.bodies EXCEPT !.sunTime = time ]
      b2 == [ b1 EXCEPT !.moonPivot = Times(b1.moonOmega, time) ]
      b3 == [ b2 EXCEPT !.moonMesh = Times(b2.moonOmega, time) ]
      b4 == [ b3 EXCEPT !.earthPosition =
                EarthPosition(config.ORBIT_RADIUS, b3.earthOrbitalSpeed, time,
                              b3.sunPosition[2]) ]
      g  == [ s.grid EXCEPT !.sunPos = b4.earthPosition ]
      b5 == [ b4 EXCEPT !.earthRotation = time * EARTH_SPIN ]
  IN [ s EXCEPT !.bodies = b5, !.grid = g,
                !.log = s.log \o <<"sun.time", "moon.pivot", "moon.mesh",
                                   "earth.position", "earthPos", "earth.rotation">> ]

\* updateCelestialBodies storing the moon's angle back into its rate
updateCelestialBodiesRateDrift(s) ==
  LET time == s.t
      b1 == [ s.bodies EXCEPT !.sunTime = time ]
      b2 == [ b1 EXCEPT !.moonOmega = Times(b1.moonOmega, time) ]
      b3 == [ b2 EXCEPT !.moonPivot = b2.moonOmega, !.moonMesh = b2.moonOmega ]
      b4 == [ b3 EXCEPT !.earthPosition =
                EarthPosition(config.ORBIT_RADIUS, b3.earthOrbitalSpeed, time,
                              b3.sunPosition[2]) ]
      g  == [ s.grid EXCEPT !.earthPos = b4.earthPosition ]
      b5 == [ b4 EXCEPT !.earthRotation = time * EARTH_SPIN ]
  IN [ s EXCEPT !.bodies = b5, !.grid = g,
                !.log = s.log \o <<"sun.time", "moon.pivot", "moon.mesh",
                                   "earth.position", "earthPos", "earth.rotation">> ]

updateCelestialBodies(s) ==
  LET time == s.t
      b1 == [ s.bodies EXCEPT !.sunTime = time ]
      b2 == [ b1 EXCEPT !.moonPivot = Times(b1.moonOmega, time) ]
      b3 == [ b2 EXCEPT !.moonMesh = Times(b2.moonOmega, time) ]
      b4 == [ b3 EXCEPT !.earthPosition =
                EarthPosition(config.ORBIT_RADIUS, b3.earthOrbitalSpeed, time,
                              b3.sunPosition[2]) ]
      g  == [ s.grid EXCEPT !.earthPos = b4.earthPosition ]
      b5 == [ b4 EXCEPT !.earthRotation = time * EARTH_SPIN ]
  IN [ s EXCEPT !.bodies = b5, !.grid = g,
                !.log = s.log \o <<"sun.time", "moon.pivot", "moon.mesh",
                                   "earth.position", "earthPos", "earth.rotation">> ]

updateSpaceBackground(s) ==
  [ s EXCEPT !.background.time = s.t, !.log = s.log \o <<"background.time">> ]

\* offsetLocal (0, 4, -10) turned by a yaw of q quarter-turns
OffsetWorld(q) ==
  CASE q = 0 -> Vec(0, 4, -10)
    [] q = 1 -> Vec(-10, 4, 0)
    [] q = 2 -> Vec(0, 4, 10)
    [] OTHER -> Vec(10, 4, 0)

\* heading after the q/e yaw control
Yaw(ks, h, delta) ==
  LET h1 == IF ks["q"] THEN h + TURN_SPEED * delta ELSE h
  IN IF ks["e"] THEN h1 - TURN_SPEED * delta ELSE h1

\* camera-relative forward and right vectors
CamFwd(cam) == Normalize(SetY(cam.direction, 0))
CamRight(cam) == Normalize(Cross(CamFwd(cam), Vec(0, 1, 0)))

\* the thrust vector with S and D tested only when W and A are not held
ThrustDirElse(ks, cam) ==
  LET t0 == Zero3
      t1 == IF ks["w"] THEN VAdd(t0, CamFwd(cam))
            ELSE IF ks["s"] THEN VSub(t0, CamFwd(cam)) ELSE t0
  IN IF ks["a"] THEN VSub(t1, CamRight(cam))
     ELSE IF ks["d"] THEN VAdd(t1, CamRight(cam)) ELSE t1

\* thrust vector from WASD
ThrustDir(ks, cam) ==
  LET t0 == Zero3
      t1 == IF ks["w"] THEN VAdd(t0, CamFwd(cam)) ELSE t0
      t2 == IF ks["s"] THEN VSub(t1, CamFwd(cam)) ELSE t1
      t3 == IF ks["a"] THEN VSub(t2, CamRight(cam)) ELSE t2
  IN IF ks["d"] THEN VAdd(t3, CamRight(cam)) ELSE t3

\* dampening in proportion to the frame time
ThrustDampByDelta(v, thrustDir, delta) ==
  IF LengthSq(thrustDir) > 0
  THEN LET v1 == VAdd(v, VScale(Normalize(thrustDir), ACCELERATION * delta))
       IN IF LengthSq(v1) > (MAX_VELOCITY * FP) * (MAX_VELOCITY * FP)
          THEN VScale(Normalize(v1), MAX_VELOCITY)
          ELSE v1
  ELSE VQuot(VScale(v, 100 - DAMPENING_x100 * delta), 100)

\* thrust without the cut back to the top speed
ThrustNoClamp(v, thrustDir, delta) ==
  IF LengthSq(thrustDir) > 0
  THEN VAdd(v, VScale(Normalize(thrustDir), ACCELERATION * delta))
  ELSE VQuot(VScale(v, 100 - DAMPENING_x100), 100)

\* thrust and dampening; velocity.length() > MAX_VELOCITY is decided on the
\* squares, which the rounding of the square root would blur
Thrust(v, thrustDir, delta) ==
  IF LengthSq(thrustDir) > 0
  THEN LET v1 == VAdd(v, VScale(Normalize(thrustDir), ACCELERATION * delta))
       IN IF LengthSq(v1) > (MAX_VELOCITY * FP) * (MAX_VELOCITY * FP)
          THEN VScale(Normalize(v1), MAX_VELOCITY)
          ELSE v1
  ELSE VQuot(VScale(v, 100 - DAMPENING_x100), 100)

\* updateXWing after its guard: the statements of lines 82-145
updateXWingBody(s) ==
  LET delta == s.tick.delta
      h   == Yaw(s.keys, s.heading, delta)
      v1  == Thrust(s.velocity, ThrustDir(s.keys, s.camera), delta)
      pos == SetY(VAdd(s.craft.position, VScale(v1, delta)), 0)
      v2  == SetY(v1, 0)
      \* xWing.quaternion.slerp(targetQuat, 5 * delta): unchanged when the
      \* factor is 0, otherwise one of the orientations Faces stands for
      q   == IF 5 * delta = 0 THEN s.craft.quaternion ELSE s.face
      off == VScale(OffsetWorld(q), FP)
      cp  == VAdd(pos, off)
  IN [ s EXCEPT !.heading = h,
                !.velocity = v2,
                !.craft.position = pos,
                !.craft.quaternion = q,
                !.camera.position = cp,
                !.camera.direction = Normalize(VSub(pos, cp)),
                !.log = s.log \o <<"heading", "velocity", "xWing.position",
                                   "xWing.quaternion", "camera.position">> ]

\* updateXWing without its guard: heading and velocity are updated, then
\* xWing.position of undefined throws
updateXWingNoGuard(s) ==
  IF s.xWing = "undefined"
  THEN [ s EXCEPT !.heading = Yaw(s.keys, s.heading, s.tick.delta),
                  !.velocity = Thrust(s.velocity, ThrustDir(s.keys, s.camera),
                                      s.tick.delta),
                  !.tick.fault = TRUE ]
  ELSE updateXWingBody(s)

updateXWing(s) ==
  IF s.xWing = "undefined" THEN s ELSE updateXWingBody(s)

\* ------------------------------------------------------------ grid shaders
\* Values of the shaders: positions and lengths in hundredths, squared
\* lengths in hundredths squared, G, the masses and falloff in tenths (as the
\* uniforms hold them), the fade factor in thousandths.

\* the distance taken in three dimensions
HorizLengthWithY(wp, p) == Length(VSub(wp, p))

\* length(wp.xz - p.xz)
HorizLength(wp, p) ==
  Sqrt((wp[1] - p[1]) * (wp[1] - p[1]) + (wp[3] - p[3]) * (wp[3] - p[3]))

\* (length + 0.0001) * (length + 0.0001): 0.0001 is a hundredth of the length
\* unit, so the square is len*len + 2*len/100 + 1/10000
PaddedSq(len) == len * len + (2 * len) \div 100

\* the denominator with the softening term subtracted
DenominatorMinus(wp, p, falloff) ==
  falloff * 1000 - PaddedSq(HorizLength(wp, p))

\* dSun*dSun + falloff, dEarth*dEarth + falloff
Denominator(wp, p, falloff) == PaddedSq(HorizLength(wp, p)) + falloff * 1000

\* G * mass / (d*d + falloff)
Dip(G, m, wp, p, falloff) ==
  (G * m * 100) \div (Denominator(wp, p, falloff) \div 100)

\* the vertex shader keeping only the deeper of the two dips
GRID_VERTEX_SHADER_Max(position, u) ==
  LET wp == position
      dipSun == Dip(u.G, u.mass, wp, u.sunPos, u.falloff)
      dipEarth == Dip(u.G, u.earthMass, wp, u.earthPos, u.falloff)
  IN SetY(wp, wp[2] - (IF dipSun > dipEarth THEN dipSun ELSE dipEarth))

\* main() of GRID_VERTEX_SHADER: vWorldPos of the vertex at position (the
\* plane lies in y = 0 and the mesh is not moved, so wp = position)
GRID_VERTEX_SHADER(position, u) ==
  LET wp == position
      dipSun == Dip(u.G, u.mass, wp, u.sunPos, u.falloff)
      dipEarth == Dip(u.G, u.earthMass, wp, u.earthPos, u.falloff)
  IN SetY(wp, wp[2] - (dipSun + dipEarth))

\* length() of a vector whose components may exceed the range whose squares
\* fit a machine integer: taken at a tenth of the resolution then
WideLength(v) ==
  IF \E i \in 1 .. 3 : v[i] > 20000 \/ v[i] < -20000
  THEN 10 * Length(VQuot(v, 10))
  ELSE Length(v)

\* Vertices of PlaneGeometry(GRID_SIZE, GRID_SIZE, GRID_DIVISIONS,
\* GRID_DIVISIONS) after rotateX(-PI/2): the centre, a corner, an edge, and
\* vertices on and next to the Earth's orbit (the vertex spacing is 0.125)
SampleVertices ==
  { Vec(x, 0, z) : x \in {-(GRID_SIZE * FP) \div 2, 0, 2500, 5000},
                   z \in {-(GRID_SIZE * FP) \div 2, 0, 200, 5000} }

\* the sampled vertices and the points of the plane under the two masses
QueryPoints(u) == SampleVertices \cup {SetY(u.sunPos, 0), SetY(u.earthPos, 0)}

\* GLSL smoothstep(edge0, edge1, x), for edge0 < edge1:
\* t = clamp((x - edge0) / (edge1 - edge0), 0, 1); t * t * (3 - 2 * t)
\* smoothstep as a linear ramp
smoothstepLinear(edge0, edge1, x) ==
  LET r == ((x - edge0) * MRAD) \div (edge1 - edge0)
      t == IF r < 0 THEN 0 ELSE IF r > MRAD THEN MRAD ELSE r
  IN t

smoothstep(edge0, edge1, x) ==
  LET r == ((x - edge0) * MRAD) \div (edge1 - edge0)
      t == IF r < 0 THEN 0 ELSE IF r > MRAD THEN MRAD ELSE r
  IN (t * t * (3 * MRAD - 2 * t)) \div (MRAD * MRAD)

\* fadeFactor of GRID_FRAGMENT_SHADER as a function of distToPlayer
FadeFactor(u, distToPlayer) ==
  MRAD - smoothstep(u.fadeStartDistance, u.maxVisibleDistance, distToPlayer)

\* main() of GRID_FRAGMENT_SHADER up to fadeFactor
GRID_FRAGMENT_SHADER(vWorldPos, u) ==
  FadeFactor(u, WideLength(VSub(vWorldPos, u.playerPosition)))

\* composer.render(): what the draw call reads
render(s) ==
  [ s EXCEPT !.tick.rendered = [ t |-> s.t, sunTime |-> s.bodies.sunTime,
                                 bgTime |-> s.background.time, grid |-> s.grid ],
             !.log = s.log \o <<"render">> ]

\* one statement of animate
Exec(stmt, s) ==
  IF s.tick.fault THEN s
  ELSE CASE stmt = "getElapsedTime" ->
              LET c == getElapsedTime(s.clock, s.d)
              IN [ s EXCEPT !.clock = c, !.t = c.elapsedTime ]
         [] stmt = "delta" -> [ s EXCEPT !.tick.delta = s.t - s.prevTime ]
         [] stmt = "prevTime" ->
              [ s EXCEPT !.prevTime = s.t, !.log = s.log \o <<"prevTime">> ]
         [] stmt = "updateCelestialBodies" -> updateCelestialBodies(s)
         [] stmt = "updateSpaceBackground" -> updateSpaceBackground(s)
         [] stmt = "updateXWing" -> updateXWing(s)
         [] stmt = "playerPosition" ->
              IF s.xWing # "undefined"
              THEN [ s EXCEPT !.grid.playerPosition = s.craft.position,
                              !.log = s.log \o <<"playerPosition">> ]
              ELSE s
         [] stmt = "starField" ->
              [ s EXCEPT !.background.starRotation = s.t * STAR_SPIN,
                         !.log = s.log \o <<"starField.rotation">> ]
         [] stmt = "render" -> render(s)

RECURSIVE Run(_, _)
Run(stmts, s) ==
  IF stmts = <<>> THEN s
  ELSE CHOOSE r \in { Run(Tail(stmts), s1) : s1 \in {Exec(Head(stmts), s)} } : TRUE

\* animate pushing the player position before the movement update
AnimateBodyUniformFirst ==
  << "getElapsedTime", "delta", "prevTime", "updateCelestialBodies",
     "updateSpaceBackground", "playerPosition", "updateXWing", "starField",
     "render" >>

\* animate rendering before the background and spacecraft updates
AnimateBodyRenderEarly ==
  << "getElapsedTime", "delta", "prevTime", "updateCelestialBodies", "render",
     "updateSpaceBackground", "updateXWing", "playerPosition", "starField" >>

\* animate storing the new time before taking the difference
AnimateBodyPrevTimeFirst ==
  << "getElapsedTime", "prevTime", "delta", "updateCelestialBodies",
     "updateSpaceBackground", "updateXWing", "playerPosition", "starField",
     "render" >>

\* the statements of animate, in source order
AnimateBody ==
  << "getElapsedTime", "delta", "prevTime", "updateCelestialBodies",
     "updateSpaceBackground", "updateXWing", "playerPosition", "starField",
     "render" >>

\* the state animate starts from; d and face are this call's inputs
TickState(d, face) ==
  [ d |-> d, face |-> face, t |-> 0, log |-> <<>>,
    clock |-> clock, prevTime |-> prevTime, keys |-> keys, heading |-> heading,
    velocity |-> velocity, xWing |-> xWing, craft |-> craft, camera |-> camera,
    bodies |-> bodies, grid |-> grid, background |-> background,
    tick |-> [ tick EXCEPT !.fault = FALSE ] ]

\* one call of animate by the animation loop, d seconds after the previous
\* one and not later than limit; an exception leaves the loop without
\* requesting the next frame
animate(d, face, limit) ==
  /\ microtasks = <<>>
  /\ running
  /\ clock.elapsedTime + d <= limit
  /\ \E s \in {Run(AnimateBody, TickState(d, face))} :
        /\ clock' = s.clock
        /\ prevTime' = s.prevTime
        /\ heading' = s.heading
        /\ velocity' = s.velocity
        /\ craft' = s.craft
        /\ camera' = s.camera
        /\ bodies' = s.bodies
        /\ grid' = s.grid
        /\ background' = s.background
        /\ tick' = [ s.tick EXCEPT !.t = s.t, !.log = s.log ]
        /\ running' = ~s.tick.fault
  /\ UNCHANGED <<config, window, keys, loader, microtasks, xWing, errorLog, sizes>>

Next ==
  \/ \E code \in PressedCodes : keydown(code)
  \/ \E code \in PressedCodes : keyup(code)
  \/ \E size \in WindowSizes : onResize(size)
  \/ gltfOnLoad
  \/ gltfOnError
  \/ thenCallback
  \/ catchCallback
  \/ \E d \in Steps, face \in Faces : animate(d, face, MaxTime)

Spec == Init /\ [][Next]_vars

\* The program started with other values in constants.js and createGrid: the
\* shipped ones, and ones with a zero or negative mass, radius or falloff or
\* with fade distances out of order.
Configs ==
  {DefaultConfig}
    \cup {[DefaultConfig EXCEPT !.ORBIT_RADIUS = r] : r \in {0, -ORBIT_RADIUS}}
    \cup {[DefaultConfig EXCEPT !.SOLAR_MASS = -SOLAR_MASS]}
    \cup {[DefaultConfig EXCEPT !.DIP_FALLOFF = f] : f \in {0, -DIP_FALLOFF_x10}}
    \cup {[DefaultConfig EXCEPT !.fadeStartDistance = a] : a \in {80, 90}}

InitConfig == \E c \in Configs : Start(c)

SpecConfig == InitConfig /\ [][Next]_vars

\* The program with every key of the keyboard in play: all six bound codes
\* and a foreign one, the model loading, and frames one second apart.
NextKeys ==
  \/ \E code \in KeyCodes : keydown(code)
  \/ \E code \in KeyCodes : keyup(code)
  \/ gltfOnLoad
  \/ thenCallback
  \/ animate(1, 0, MaxKeyTime)

SpecKeys == Init /\ [][NextKeys]_vars

\* the codes of the four thrust keys
ThrustCodes == {"KeyW", "KeyA", "KeyS", "KeyD"}

\* The program with the four thrust keys in play, the model loading, and
\* frames one second apart.
NextThrust ==
  \/ \E code \in ThrustCodes : keydown(code)
  \/ \E code \in ThrustCodes : keyup(code)
  \/ gltfOnLoad
  \/ thenCallback
  \/ animate(1, 0, MaxThrustTime)

SpecThrust == Init /\ [][NextThrust]_vars

\* whole seconds in one revolution of the Earth: 2 * pi / ORB_OMEGA
Period == (2 * PI_MRAD) \div ORB_OMEGA

\* The program with frames half a revolution of the Earth apart (a page left
\* in the background), up to one full revolution, and no thrust key pressed.
NextOrbit ==
  \/ \E code \in {"KeyQ", "KeyX"} : keydown(code)
  \/ \E code \in {"KeyQ", "KeyX"} : keyup(code)
  \/ \E size \in WindowSizes : onResize(size)
  \/ gltfOnLoad
  \/ gltfOnError
  \/ thenCallback
  \/ catchCallback
  \/ \E d \in {Period \div 2, Period - Period \div 2}, face \in Faces :
        animate(d, face, Period)

SpecOrbit == Init /\ [][NextOrbit]_vars

\* ------------------------------------------------------------ properties
Last(seq) == seq[Len(seq)]
InLog(x) == \E i \in 1 .. Len(tick.log) : tick.log[i] = x
IndexOf(seq, x) == CHOOSE i \in 1 .. Len(seq) : seq[i] = x
\* the step is a call of animate
IsAnimate == \E d \in Steps, face \in Faces : animate(d, face, MaxTime)
\* some tick has rendered
Rendered == tick.rendered.t >= 0

\* C1: a tick executed while the spacecraft model is not loaded runs through
\* to the render call without an exception (the loop stays scheduled) and
\* leaves heading, velocity, the camera, the model object and the grid's
\* playerPosition uniform unchanged, whatever keys are held.
C1_TickWithoutModel ==
  [][ (xWing = "undefined" /\ IsAnimate) =>
        /\ ~tick'.fault
        /\ running'
        /\ tick'.log # <<>>
        /\ Last(tick'.log) = "render"
        /\ tick'.rendered.t = clock'.elapsedTime
        /\ heading' = heading
        /\ velocity' = velocity
        /\ camera' = camera
        /\ craft' = craft
        /\ grid'.playerPosition = grid.playerPosition ]_vars

\* a tick after the start has rendered without the model while a thrust key
\* and a yaw key are held, and the spacecraft state is still the initial one
C1_Witness ==
  /\ xWing = "undefined"
  /\ keys["w"] /\ keys["q"]
  /\ tick.t >= 1
  /\ tick.rendered.t = tick.t
  /\ Last(tick.log) = "render"
  /\ running
  /\ heading = PI_MRAD /\ velocity = Zero3 /\ camera = InitialCamera

\* C2: whenever the spacecraft model is not available (still loading, load
\* failed, or loaded but not yet handed to the coordinator) the playerPosition
\* uniform, and the one the last render read, is the origin.
C2_DefaultReferencePoint ==
  /\ loader # "loaded" => xWing = "undefined"
  /\ xWing = "undefined" =>
       /\ grid.playerPosition = Zero3
       /\ tick.rendered.grid.playerPosition = Zero3

\* ticks have rendered after the load failed and the reference point is the origin
C2_Witness ==
  /\ loader = "error"
  /\ xWing = "undefined"
  /\ tick.rendered.t >= 2
  /\ grid.playerPosition = Zero3

\* C3: once the load has failed the error has been logged as soon as the
\* promise reaction has run, the spacecraft reference stays undefined from
\* then on, and the loop stays scheduled: a tick is still possible and each
\* tick after the failure updates the celestial bodies and renders.
C3_LoadFailure ==
  /\ [](loader = "error" /\ microtasks = <<>> =>
          /\ errorLog = 1
          /\ xWing = "undefined"
          /\ running
          /\ (clock.elapsedTime < MaxTime => ENABLED animate(1, 0, MaxTime)))
  /\ [][ loader = "error" =>
           /\ loader' = "error"
           /\ xWing' = "undefined"
           /\ errorLog' >= errorLog
           /\ (IsAnimate =>
                 /\ Last(tick'.log) = "render"
                 /\ tick'.rendered.t = clock'.elapsedTime
                 /\ bodies'.sunTime = clock'.elapsedTime
                 /\ bodies'.earthPosition =
                      EarthPosition(ORBIT_RADIUS, ORB_OMEGA, clock'.elapsedTime, 0)) ]_vars

\* the load failed, the error was logged, and a later tick moved the Earth
C3_Witness ==
  /\ loader = "error"
  /\ errorLog = 1
  /\ xWing = "undefined"
  /\ tick.rendered.t >= 1
  /\ bodies.earthPosition # Vec(ORBIT_RADIUS * FP, 0, 0)
  /\ running

\* C4: the earthPos uniform read by the render call of a tick is the Earth
\* mesh position set by that same tick (never the previous frame's).
C4_EarthUniformFresh ==
  Rendered =>
    /\ tick.rendered.t = tick.t
    /\ tick.rendered.grid.earthPos = bodies.earthPosition
    /\ InLog("earth.position") /\ InLog("earthPos")
    /\ IndexOf(tick.log, "earth.position") < IndexOf(tick.log, "earthPos")
    /\ IndexOf(tick.log, "earthPos") < IndexOf(tick.log, "render")

\* a render has read an Earth position away from the start of the orbit
C4_Witness ==
  /\ tick.rendered.t >= 2
  /\ tick.rendered.grid.earthPos = bodies.earthPosition
  /\ bodies.earthPosition # Vec(ORBIT_RADIUS * FP, 0, 0)

\* C5: in every tick with the spacecraft loaded, the playerPosition uniform
\* read by the render call is the spacecraft position after that tick's
\* movement update (old position plus new velocity times delta, on y = 0).
C5_PlayerUniformFresh ==
  [][ (xWing = "model" /\ IsAnimate) =>
        /\ Last(tick'.log) = "render"
        /\ craft'.position =
             SetY(VAdd(craft.position, VScale(velocity', tick'.delta)), 0)
        /\ tick'.rendered.grid.playerPosition = craft'.position
        /\ grid'.playerPosition = craft'.position ]_vars

\* the spacecraft has moved away from its start position and the render read
\* the moved position
C5_Witness ==
  /\ xWing = "model"
  /\ InLog("playerPosition")
  /\ craft.position # Vec(0, 0, ORBIT_RADIUS * FP)
  /\ velocity # Zero3
  /\ tick.rendered.grid.playerPosition = craft.position

\* C6: after a tick at elapsed time t the Earth is at
\* (R cos(ORB_OMEGA t), sunY, R sin(ORB_OMEGA t)): a function of t alone,
\* whatever the number and spacing of the ticks before.
C6_EarthPositionOfTime ==
  Rendered =>
    LET ang == ORB_OMEGA * clock.elapsedTime
    IN /\ tick.t = clock.elapsedTime
       /\ bodies.earthPosition[1] = (ORBIT_RADIUS * Cos(ang) * FP) \div MRAD
       /\ bodies.earthPosition[2] = bodies.sunPosition[2]
       /\ bodies.earthPosition[3] = (ORBIT_RADIUS * Sin(ang) * FP) \div MRAD

\* a tick at t = 3 that was not the first after the start (1+2, 2+1 or 1+1+1)
C6_Witness ==
  /\ tick.t = 3
  /\ tick.delta < tick.t
  /\ bodies.earthPosition[3] > 0

\* C7: tidal lock: after every tick the moon mesh's own rotation angle
\* equals the moon pivot's angle, both being moon.omega * t.
C7_TidalLock ==
  /\ bodies.moonMesh = bodies.moonPivot
  /\ bodies.moonPivot = bodies.moonOmega * clock.elapsedTime

\* a tick has turned the moon
C7_Witness ==
  /\ tick.t >= 2
  /\ bodies.moonPivot > 0
  /\ bodies.moonMesh = bodies.moonPivot

\* Scene hierarchy (createMoon): earth mesh > moon pivot > moon mesh, every
\* rotation about the y axis, so yaws add up along the hierarchy.
\* World yaw of the moon mesh.
MoonWorldYaw == bodies.earthRotation + bodies.moonPivot + bodies.moonMesh
\* World bearing of the Earth-to-moon direction: the moon sits on the +X axis
\* of the pivot (moonPosition = (r, 1, 0), bearing 0 in the pivot's frame).
EarthToMoonYaw ==
  bodies.earthRotation + bodies.moonPivot
    + (IF bodies.moonPosition[3] = 0 /\ bodies.moonPosition[1] > 0 THEN 0
       ELSE PI_MRAD)
\* The moon's orientation relative to the Earth-to-moon direction
MoonFacing == (MoonWorldYaw - EarthToMoonYaw) % (2 * PI_MRAD)

\* C8: the same face of the moon points at the Earth at all times: the
\* moon's world orientation relative to the Earth-to-moon direction stays
\* what it was at construction.
C8_SameFaceToEarth == MoonFacing = 0

\* C9: in every tick the writes to the renderer uniforms come before the
\* render call, which is the tick's last step; what the render read are the
\* values of its own tick, and nothing is written after it.
C9_WritesBeforeRender ==
  tick.log # <<>> =>
    /\ Last(tick.log) = "render"
    /\ \A x \in {"sun.time", "earthPos", "background.time"} :
         InLog(x) /\ IndexOf(tick.log, x) < IndexOf(tick.log, "render")
    /\ InLog("playerPosition") =>
         IndexOf(tick.log, "playerPosition") < IndexOf(tick.log, "render")
    /\ tick.rendered.t = tick.t
    /\ tick.rendered.sunTime = tick.t
    /\ tick.rendered.bgTime = tick.t
    /\ tick.rendered.grid.earthPos = EarthPosition(ORBIT_RADIUS, ORB_OMEGA, tick.t, 0)
    /\ (InLog("playerPosition") =>
          tick.rendered.grid.playerPosition = craft.position)
    /\ tick.rendered.grid = grid
    /\ tick.rendered.sunTime = bodies.sunTime
    /\ tick.rendered.bgTime = background.time

\* a tick with the spacecraft loaded has written all four uniforms and rendered
C9_Witness ==
  /\ tick.t >= 2
  /\ InLog("playerPosition")
  /\ Last(tick.log) = "render"
  /\ tick.rendered.bgTime = tick.t
  /\ tick.rendered.grid.playerPosition # Zero3

\* the values only a tick may write
TickOwned == <<bodies.earthPosition, grid.earthPos, grid.playerPosition, prevTime>>

\* C10: the key handlers, the resize handler and the model-load callbacks
\* leave the Earth position, the earthPos and playerPosition uniforms and
\* prevTime unchanged: only a tick writes them.
C10_SingleWriter ==
  [][ ( \/ \E code \in KeyCodes : keydown(code) \/ keyup(code)
        \/ \E size \in WindowSizes : onResize(size)
        \/ gltfOnLoad \/ gltfOnError \/ thenCallback \/ catchCallback )
      => TickOwned' = TickOwned ]_vars

\* after ticks, the model was handed over, a key pressed and the window
\* resized, and the tick-owned values are still those of the last tick
C10_Witness ==
  /\ prevTime >= 1
  /\ xWing = "model"
  /\ keys["w"]
  /\ window # <<800, 600>>
  /\ grid.playerPosition = Zero3
  /\ grid.earthPos = EarthPosition(ORBIT_RADIUS, ORB_OMEGA, prevTime, 0)

\* the uniforms object as it is now and as the last draw call read it
Uniforms == {grid, tick.rendered.grid}

\* C11: the gravity constants of the grid (the uniforms G, falloff, mass and
\* earthMass) and sunPos hold, in every reachable state and in every draw
\* call, the values createGrid gave them (GRAVITY, DIP_FALLOFF, SOLAR_MASS,
\* EARTH_MASS, the origin): no tick, key event, resize or load event changes
\* them.
C11_GravityConstantsFixed ==
  \A u \in Uniforms :
    /\ u.G = GRAVITY_x10
    /\ u.falloff = DIP_FALLOFF_x10
    /\ u.mass = SOLAR_MASS * 10
    /\ u.earthMass = EARTH_MASS_x10
    /\ u.sunPos = Zero3

\* ticks moved the Earth uniform and the player uniform, the model was
\* loaded, a key is held and the window was resized
C11_Witness ==
  /\ Rendered
  /\ tick.t >= 2
  /\ xWing = "model"
  /\ keys["q"]
  /\ sizes.renderer # <<800, 600>>
  /\ grid.earthPos # Vec(ORBIT_RADIUS * FP, 0, 0)
  /\ grid.playerPosition # Zero3
  /\ grid.sunPos = Zero3

\* C12: the angular rates (the Earth's ORB_OMEGA and the moon's omega) are
\* those computed at initialization in every reachable state, through every
\* tick: omega = sqrt(ORB_G * M / r^3), and only t varies.
C12_RatesFixed ==
  /\ [](/\ bodies.earthOrbitalSpeed = ORB_OMEGA
        /\ bodies.moonOmega = MOON_OMEGA
        /\ ORB_OMEGA * ORB_OMEGA * ORB_G_DEN
             * ORBIT_RADIUS * ORBIT_RADIUS * ORBIT_RADIUS
             = ORB_G_NUM * SOLAR_MASS * MRAD * MRAD)
  /\ [][ /\ bodies'.earthOrbitalSpeed = bodies.earthOrbitalSpeed
         /\ bodies'.moonOmega = bodies.moonOmega ]_vars

\* two ticks at different times have turned the moon's pivot by the same rate
C12_Witness ==
  /\ Rendered
  /\ prevTime = MaxTime
  /\ tick.delta >= 1
  /\ bodies.moonPivot = MOON_OMEGA * MaxTime
  /\ bodies.moonOmega = MOON_OMEGA

\* C13: a configuration with a zero or negative orbital radius, or a negative
\* mass, is rejected at startup: no tick is ever executed and rendered under
\* it, and no tick runs with an angular rate that is not a finite number.
C13_InvalidOrbitRejected ==
  /\ ( \/ config.ORBIT_RADIUS <= 0
       \/ config.MOON_ORBIT_RADIUS <= 0
       \/ config.SOLAR_MASS < 0 ) => ~Rendered
  /\ Rendered => /\ isFinite(bodies.earthOrbitalSpeed)
                 /\ isFinite(bodies.moonOmega)

\* C14: a configuration with a zero or negative falloff, or with
\* fadeStartDistance >= maxVisibleDistance, is caught by createGrid: no draw
\* call ever reads such values from the grid's uniforms.
C14_InvalidGridRejected ==
  /\ ( \/ config.DIP_FALLOFF <= 0
       \/ config.fadeStartDistance >= config.maxVisibleDistance ) => ~Rendered
  /\ Rendered => /\ tick.rendered.grid.falloff > 0
                 /\ tick.rendered.grid.fadeStartDistance
                      < tick.rendered.grid.maxVisibleDistance

\* C15: in every reachable state the fade distances of the grid satisfy
\* 0 <= fadeStartDistance < maxVisibleDistance.
C15_FadeOrdered ==
  \A u \in Uniforms :
    /\ 0 <= u.fadeStartDistance
    /\ u.fadeStartDistance < u.maxVisibleDistance

\* a draw call has read the fade distances after the player uniform moved
C15_Witness ==
  /\ Rendered
  /\ tick.rendered.grid.playerPosition # Zero3
  /\ tick.rendered.grid.fadeStartDistance = 30 * FP
  /\ tick.rendered.grid.maxVisibleDistance = 80 * FP

\* the largest dip the two masses can cause together: G * (mass + earthMass)
\* / falloff
MaxDip(u) == (u.G * (u.mass + u.earthMass) * 100) \div ((u.falloff * 1000) \div 100)

\* C16: in every reachable state falloff > 0, and for every query point,
\* also one coincident with the sun's or the Earth's position, each
\* denominator d*d + falloff is strictly positive (at least falloff), so the
\* displacement is a finite number, between -G*(mass+earthMass)/falloff and 0.
C16_DenominatorsPositive ==
  \A u \in Uniforms :
    /\ u.falloff > 0
    /\ \A q \in QueryPoints(u) :
         /\ \A p \in {u.sunPos, u.earthPos} :
              Denominator(q, p, u.falloff) >= u.falloff * 1000
         /\ \E y \in {GRID_VERTEX_SHADER(q, u)[2]} :
              isFinite(y) /\ -MaxDip(u) <= y /\ y <= 0

\* a draw call with the Earth off the sampled vertices: the query point under
\* the Earth has the smallest denominator, the one under the sun a deep dip
C16_Witness ==
  /\ Rendered
  /\ tick.rendered.grid.earthPos \notin SampleVertices
  /\ \E u \in {tick.rendered.grid} :
       /\ Denominator(u.earthPos, u.earthPos, u.falloff) = u.falloff * 1000
       /\ GRID_VERTEX_SHADER(u.sunPos, u)[2] < -(600 * FP)

\* heights a mass is lifted to or lowered by when its y is varied
Heights == {-500, 700}

\* C17: the vertical offset of a grid vertex is the negated sum, over the
\* two masses, of G*mass/(d*d + falloff), d being the horizontal (x, z)
\* distance from the vertex to the mass (padded by the shader's 0.0001); x
\* and z of the vertex are kept, and the y coordinate of a mass position does
\* not affect the result.
C17_DisplacementFormula ==
  \A u \in Uniforms : \A q \in QueryPoints(u) :
    LET term(p, m) ==
          LET dx == q[1] - p[1]
              dz == q[3] - p[3]
              len == Sqrt(dx * dx + dz * dz)
              dd == len * len + (2 * len) \div 100
          IN (u.G * m * 100) \div ((dd + u.falloff * 1000) \div 100)
    IN \E v \in {GRID_VERTEX_SHADER(q, u)} :
         /\ v[1] = q[1]
         /\ v[3] = q[3]
         /\ v[2] = q[2] - (term(u.sunPos, u.mass) + term(u.earthPos, u.earthMass))
         /\ \A h \in Heights :
              GRID_VERTEX_SHADER(q, [ u EXCEPT !.sunPos = SetY(@, h),
                                               !.earthPos = SetY(@, -h) ]) = v

\* a draw call after the Earth moved: at the vertex next to the Earth's
\* start both masses contribute to the offset
C17_Witness ==
  /\ Rendered
  /\ tick.t >= 1
  /\ \E u \in {tick.rendered.grid} :
       /\ u.earthPos # Vec(ORBIT_RADIUS * FP, 0, 0)
       /\ Dip(u.G, u.mass, Vec(5000, 0, 200), u.sunPos, u.falloff) > 0
       /\ Dip(u.G, u.earthMass, Vec(5000, 0, 200), u.earthPos, u.falloff) > 0
       /\ GRID_VERTEX_SHADER(Vec(5000, 0, 200), u)[2] < 0

\* the uniforms with one of the two masses removed
SunAlone(u) == [ u EXCEPT !.earthMass = 0 ]
EarthAlone(u) == [ u EXCEPT !.mass = 0 ]
\* |displacement| of the vertex at q
Magnitude(q, u) ==
  LET dy == GRID_VERTEX_SHADER(q, u)[2] - q[2]
  IN IF dy < 0 THEN -dy ELSE dy

\* C18: for a single isolated mass (the sun alone, the Earth alone) the
\* magnitude of the displacement does not increase with the horizontal
\* distance from the mass.
C18_MonotoneInDistance ==
  \A u \in Uniforms :
    /\ \E S \in {{ <<HorizLength(q, u.sunPos), Magnitude(q, SunAlone(u))>> :
                     q \in QueryPoints(u) }} :
         \A a, b \in S : a[1] <= b[1] => a[2] >= b[2]
    /\ \E S \in {{ <<HorizLength(q, u.earthPos), Magnitude(q, EarthAlone(u))>> :
                     q \in QueryPoints(u) }} :
         \A a, b \in S : a[1] <= b[1] => a[2] >= b[2]

\* a draw call after the Earth moved, with query points at different
\* distances from the Earth whose displacements by the Earth alone differ
C18_Witness ==
  /\ Rendered
  /\ tick.t >= 2
  /\ \E u \in {tick.rendered.grid} : \E q \in SampleVertices :
       /\ HorizLength(q, u.earthPos) > 0
       /\ Magnitude(q, EarthAlone(u)) > 0
       /\ Magnitude(q, EarthAlone(u)) < Magnitude(u.earthPos, EarthAlone(u))
       /\ Magnitude(q, SunAlone(u)) < Magnitude(u.sunPos, SunAlone(u))

\* C19: superposition: the displacement computed with both the sun and the
\* Earth present is the sum of the displacement with the sun alone and the
\* displacement with the Earth alone.
C19_Superposition ==
  \A u \in Uniforms : \A q \in QueryPoints(u) :
    GRID_VERTEX_SHADER(q, u)[2] - q[2]
      = (GRID_VERTEX_SHADER(q, SunAlone(u))[2] - q[2])
          + (GRID_VERTEX_SHADER(q, EarthAlone(u))[2] - q[2])

\* a draw call in which, at the point under the Earth, both the sun alone and
\* the Earth alone displace the grid
C19_Witness ==
  /\ Rendered
  /\ tick.t >= 2
  /\ \E u \in {tick.rendered.grid} :
       /\ GRID_VERTEX_SHADER(SetY(u.earthPos, 0), SunAlone(u))[2] < 0
       /\ GRID_VERTEX_SHADER(SetY(u.earthPos, 0), EarthAlone(u))[2] < 0
       /\ GRID_VERTEX_SHADER(SetY(u.earthPos, 0), u)[2]
            < GRID_VERTEX_SHADER(SetY(u.earthPos, 0), SunAlone(u))[2]

\* distances from the player at which the fade factor is examined: the two
\* edges, points around and between them, and the distances of the fragments
\* at the query points
FadeDistances(u) ==
  { 0, u.fadeStartDistance - 1, u.fadeStartDistance,
    u.fadeStartDistance + (u.maxVisibleDistance - u.fadeStartDistance) \div 4,
    (u.fadeStartDistance + u.maxVisibleDistance) \div 2,
    u.maxVisibleDistance - 1, u.maxVisibleDistance, u.maxVisibleDistance + 1,
    3 * u.maxVisibleDistance }
    \cup { WideLength(VSub(GRID_VERTEX_SHADER(q, u), u.playerPosition)) :
             q \in QueryPoints(u) }

\* C20: the fade factor is 1.0 at any distance <= fadeStart, 0.0 at any
\* distance >= fadeEnd, 0.5 at the midpoint (fadeStart + fadeEnd) / 2, and
\* everywhere 1 - smoothstep(fadeStart, fadeEnd, distance), smoothstep being
\* 3x^2 - 2x^3 of the distance normalized to [0, 1] and clamped (to a
\* thousandth).
C20_FadeFactor ==
  \A u \in Uniforms :
    /\ FadeFactor(u, (u.fadeStartDistance + u.maxVisibleDistance) \div 2)
         = MRAD \div 2
    /\ \A d \in FadeDistances(u) :
         \E f \in {FadeFactor(u, d)} :
           /\ d <= u.fadeStartDistance => f = MRAD
           /\ d >= u.maxVisibleDistance => f = 0
           /\ 0 <= f /\ f <= MRAD
           /\ LET n == ((d - u.fadeStartDistance) * MRAD)
                         \div (u.maxVisibleDistance - u.fadeStartDistance)
                  x == IF n < 0 THEN 0 ELSE IF n > MRAD THEN MRAD ELSE n
                  cubic == (3 * x * x - (2 * x * x * x) \div MRAD) \div MRAD
              IN f - (MRAD - cubic) \in {-1, 0, 1}

\* a draw call with the player away from the origin in which one sampled
\* fragment is fully visible, one is partly faded and one is faded out
C20_Witness ==
  /\ Rendered
  /\ \E u \in {tick.rendered.grid} :
       /\ u.playerPosition # Zero3
       /\ \E F \in {{ GRID_FRAGMENT_SHADER(GRID_VERTEX_SHADER(q, u), u) :
                        q \in QueryPoints(u) }} :
            /\ MRAD \in F
            /\ 0 \in F
            /\ \E f \in F : 0 < f /\ f < MRAD

\* the state a tick works on
TickVars == <<clock, prevTime, heading, velocity, xWing, craft, bodies, grid,
              background, tick, running>>

\* C21: the resize handler is idempotent and may run between any two ticks:
\* it sets the camera aspect, the renderer size and the composer size from
\* the window size alone, so that running it again for the same window size
\* changes nothing, and it changes no tick state (previous time, spacecraft
\* state, body positions, grid uniforms).
C21_ResizeIdempotent ==
  [][ \A size \in WindowSizes :
        onResize(size) =>
          /\ camera'.aspect = Aspect(size)
          /\ sizes' = [ renderer |-> size, composer |-> size ]
          /\ camera'.position = camera.position
          /\ camera'.direction = camera.direction
          /\ (window = size /\ sizes.renderer = size => vars' = vars)
          /\ TickVars' = TickVars ]_vars

\* the window was resized between two ticks with the spacecraft in flight
C21_Witness ==
  /\ window = <<1200, 600>>
  /\ sizes = [ renderer |-> <<1200, 600>>, composer |-> <<1200, 600>> ]
  /\ camera.aspect = Aspect(<<1200, 600>>)
  /\ xWing = "model"
  /\ prevTime >= 1
  /\ prevTime < MaxTime
  /\ velocity # Zero3

\* the distance the Earth travels in half a second, the resolution of a clock
\* that counts whole seconds: ORBIT_RADIUS * ORB_OMEGA / 2, in hundredths
OrbitTolerance == (ORBIT_RADIUS * FP * ORB_OMEGA) \div (2 * MRAD)

\* C22: periodicity: the Earth's position at t = 0 is (ORBIT_RADIUS, y0, 0),
\* and at t equal to one full period 2*pi/ORB_OMEGA (to the whole second) the
\* position is back at (ORBIT_RADIUS, y0, 0) within the distance travelled in
\* half a second, y0 being the sun's height.
C22_Periodicity ==
  /\ (Rendered /\ tick.t = 0) =>
        bodies.earthPosition = Vec(ORBIT_RADIUS * FP, bodies.sunPosition[2], 0)
  /\ (Rendered /\ tick.t = Period) =>
        /\ bodies.earthPosition[2] = bodies.sunPosition[2]
        /\ bodies.earthPosition[1] - ORBIT_RADIUS * FP
             \in -OrbitTolerance .. OrbitTolerance
        /\ bodies.earthPosition[3] \in -OrbitTolerance .. OrbitTolerance

\* a tick at one full period, half a revolution after the previous tick
C22_Witness ==
  /\ Rendered
  /\ tick.t = Period
  /\ tick.delta = Period - Period \div 2
  /\ bodies.earthPosition[1] > 0
  /\ grid.earthPos = bodies.earthPosition

\* C23: prevTime is updated on every tick whether or not the spacecraft is
\* loaded: it always equals the clock's elapsed time, every delta is the
\* time since the immediately preceding tick and >= 0, and the spacecraft
\* moves by velocity * delta with that delta on every tick (also on the first
\* after the model loads), never by the time since start.
C23_DeltaSincePreviousTick ==
  /\ [](prevTime = clock.elapsedTime /\ tick.delta >= 0)
  /\ [][ IsAnimate =>
           /\ prevTime' = clock'.elapsedTime
           /\ tick'.delta = clock'.elapsedTime - clock.elapsedTime
           /\ tick'.delta >= 0
           /\ xWing = "model" =>
                craft'.position =
                  SetY(VAdd(craft.position, VScale(velocity', tick'.delta)), 0)
         ]_vars

\* the first spacecraft update after a late load: ticks ran before the model
\* was handed over, the delta is shorter than the time since start and the
\* spacecraft has moved by less than its top speed allows in one step
C23_Witness ==
  /\ xWing = "model"
  /\ InLog("xWing.position")
  /\ tick.delta >= 1
  /\ tick.delta < prevTime
  /\ velocity # Zero3
  /\ craft.position = SetY(VAdd(Vec(0, 0, ORBIT_RADIUS * FP),
                                VScale(velocity, tick.delta)), 0)

\* C24: after every updateXWing call, for any sequence of key events and any
\* delta >= 0, the spacecraft's speed |velocity|, to the hundredth of a unit
\* that lengths are kept to, is at most MAX_VELOCITY (= MOVE_SPEED).
C24_SpeedBounded ==
  /\ MAX_VELOCITY = MOVE_SPEED
  /\ Length(velocity) <= MAX_VELOCITY * FP

\* a tick with two thrust keys held accelerated the spacecraft diagonally
\* beyond the top speed and the speed was cut back to it
C24_Witness ==
  /\ xWing = "model"
  /\ InLog("velocity")
  /\ tick.delta = 1
  /\ keys["w"] /\ keys["d"] /\ ~keys["s"] /\ ~keys["a"]
  /\ velocity[1] # 0
  /\ velocity[3] # 0
  /\ Length(velocity) > MAX_VELOCITY * FP - FP \div 10

\* C25: the spacecraft stays on the y = 0 plane: in every reachable state
\* after the load, xWing.position.y = 0 and velocity.y = 0, for any sequence
\* of key events and ticks.
C25_OnPlane ==
  /\ velocity[2] = 0
  /\ craft.exists => craft.position[2] = 0

\* the spacecraft has flown sideways and forward under a camera that looks
\* down on it
C25_Witness ==
  /\ xWing = "model"
  /\ camera.direction[2] < 0
  /\ velocity # Zero3
  /\ craft.position[1] # 0
  /\ craft.position[3] # ORBIT_RADIUS * FP
  /\ craft.position[2] = 0

\* C26: the coordinator's spacecraft reference is set at most once and never
\* cleared or replaced afterwards; at the step that sets it the model has
\* already been added to the scene at its initial position
\* (0, 0, ORBIT_RADIUS); and in every state in which it is set the model is
\* in the scene, so no tick observes a spacecraft that is set but not in the
\* scene.
C26_SetOnceInScene ==
  /\ [](xWing = "model" => craft.exists /\ craft.inScene)
  /\ [][ /\ xWing = "model" => xWing' = "model"
         /\ xWing' # xWing =>
              /\ xWing = "undefined"
              /\ loader = "loaded"
              /\ microtasks' = <<>>
              /\ craft.inScene
              /\ craft' = craft
              /\ craft.position = Vec(0, 0, ORBIT_RADIUS * FP) ]_vars

\* the reference was set, and ticks have since turned and moved the
\* spacecraft up to the last frame
C26_Witness ==
  /\ xWing = "model"
  /\ loader = "loaded"
  /\ craft.inScene
  /\ prevTime = MaxTime
  /\ keys["q"]
  /\ heading # PI_MRAD
  /\ craft.position # Vec(0, 0, ORBIT_RADIUS * FP)

\* the key code bound to each flag
Bindings == { <<"KeyW", "w">>, <<"KeyA", "a">>, <<"KeyS", "s">>,
              <<"KeyD", "d">>, <<"KeyQ", "q">>, <<"KeyE", "e">> }

\* C27: all flags start false; a keydown sets the flag bound to its key code
\* and a keyup clears it, leaving every other flag alone; an event with any
\* other key code changes no flag; and nothing else changes a flag. Hence
\* after any sequence of events, before or after the model loads, each flag
\* is true exactly when the most recent event for its code was a keydown.
C27_KeysFollowEvents ==
  /\ \A k \in KeyNames : ~keys[k]
  /\ [][ /\ \A code \in KeyCodes :
              /\ keydown(code) =>
                   \A k \in KeyNames :
                     keys'[k] = IF <<code, k>> \in Bindings THEN TRUE ELSE keys[k]
              /\ keyup(code) =>
                   \A k \in KeyNames :
                     keys'[k] = IF <<code, k>> \in Bindings THEN FALSE ELSE keys[k]
         /\ keys' # keys =>
              \E code \in KeyCodes : keydown(code) \/ keyup(code) ]_vars

\* after key events on both sides of the load and a tick, exactly the flags
\* of the keys still held are set
C27_Witness ==
  /\ xWing = "model"
  /\ prevTime = 1
  /\ keys["e"] /\ keys["a"] /\ keys["s"]
  /\ ~keys["q"] /\ ~keys["w"] /\ ~keys["d"]
  /\ heading < PI_MRAD

\* the held thrust keys sum to a zero direction: W with S and/or A with D,
\* and no thrust key without its opposite
OpposingOnly(ks) ==
  /\ ks["w"] = ks["s"]
  /\ ks["a"] = ks["d"]
  /\ ks["w"] \/ ks["a"]

\* the key flags with the four thrust keys released
NoThrustKeys(ks) ==
  [ k \in KeyNames |-> IF k \in {"w", "a", "s", "d"} THEN FALSE ELSE ks[k] ]

\* C28: opposing thrust keys cancel: on a tick with the model loaded where
\* the held WASD keys sum to a zero thrust direction, the thrust vector is
\* zero, no acceleration is applied, and the tick dampens the velocity and
\* moves the spacecraft and the camera exactly as if no thrust key were held.
C28_OpposingKeysCancel ==
  [][ (animate(1, 0, MaxThrustTime) /\ xWing = "model" /\ OpposingOnly(keys)) =>
        /\ ThrustDir(keys, camera) = Zero3
        /\ velocity' = VQuot(VScale(velocity, 100 - DAMPENING_x100), 100)
        /\ \E s \in {Run(AnimateBody,
                         [ TickState(1, 0) EXCEPT !.keys = NoThrustKeys(keys) ])} :
             /\ velocity' = s.velocity
             /\ craft' = s.craft
             /\ camera' = s.camera
             /\ heading' = s.heading ]_vars

\* the spacecraft was brought to top speed and then coasted through a tick
\* with all four thrust keys held, which dampened its velocity
C28_Witness ==
  /\ xWing = "model"
  /\ keys["w"] /\ keys["s"] /\ keys["a"] /\ keys["d"]
  /\ prevTime = MaxThrustTime
  /\ tick.delta = 1
  /\ velocity # Zero3
  /\ Length(velocity) < MAX_VELOCITY * FP
  /\ Length(velocity) >= (MAX_VELOCITY * FP * (100 - 2 * DAMPENING_x100)) \div 100

\* |x|
Abs(x) == IF x < 0 THEN -x ELSE x

\* C29: on every tick with the spacecraft loaded and zero net thrust,
\* velocity is scaled by exactly 1 - DAMPENING whatever the tick's delta is
\* (0, 1 or 2 seconds), so the speed does not increase and the direction of
\* motion is unchanged (no component changes sign, and the scaled vector is
\* parallel to the old one up to the rounding of its components).
C29_DampeningPerTick ==
  [][ (IsAnimate /\ xWing = "model" /\ ThrustDir(keys, camera) = Zero3) =>
        /\ velocity' = VQuot(VScale(velocity, 100 - DAMPENING_x100), 100)
        /\ LengthSq(velocity') <= LengthSq(velocity)
        /\ \A i \in 1 .. 3 : velocity'[i] * velocity[i] >= 0
        /\ Abs(velocity[1] * velocity'[3] - velocity[3] * velocity'[1])
             <= Abs(velocity[1]) + Abs(velocity[3]) ]_vars

\* the spacecraft was accelerated for one second under the initial camera,
\* the key was released, and a tick two seconds later dampened the velocity
\* once
C29_Witness ==
  /\ xWing = "model"
  /\ ~keys["w"]
  /\ tick.delta = 2
  /\ prevTime = MaxTime
  /\ velocity # Zero3
  /\ velocity = VQuot(VScale(Thrust(Zero3, CamFwd(InitialCamera), 1),
                             100 - DAMPENING_x100), 100)

====
